---- MODULE Spec2Model ----
(***************************************************************************)
(* AKA URL shortener: RoutingService (src/src/services/routing.ts),        *)
(* ConfigurationService (src/unnamed/part_002), URLUtils                   *)
(* (src/src/utils/url.ts) and AKAService (src/src/main.ts).                *)
(*                                                                         *)
(* Strings are tuples of one-character strings, so that toLowerCase,       *)
(* split and startsWith are computed on characters.  A missing (undefined) *)
(* string field is the value Undefined; a null reference is Null.          *)
(***************************************************************************)
EXTENDS Integers, Sequences, FiniteSets, TLC

VARIABLES
  configuration,   \* RoutingService.configuration: Null or a configuration
  isInitialized,   \* AKAService.isInitialized
  configCache,     \* ConfigurationService.configCache (one shared singleton)
  lastLoaded,      \* ConfigurationService.lastLoaded: Null or set
  calls,           \* the asynchronous calls in flight (suspended at an await)
  obs,             \* what the last step's call returned or threw
  lastInit,        \* history: configuration of the last successful initialize
  prevInit,        \* history: configuration of the successful initialize before
  reloadSince,     \* history: a reload stored a configuration after lastInit
  history,         \* history: the first result of each findRedirect call made
  app              \* the redirect page: window.location, document, progress

vars == <<configuration, isInitialized, configCache, lastLoaded, calls, obs,
          lastInit, prevInit, reloadSince, history, app>>

----------------------------------------------------------------------------
(* Values *)

Undefined == <<"undefined">>
Null == [null |-> TRUE]
NotAnArray == <<[undefined |-> TRUE]>>

\* A value that is not a string, such as a number.
NotAString == <<"number">>

\* typeof s === 'string'
IsString(s) == s \notin {Undefined, NotAString}

\* JavaScript truthiness of an optional string: neither undefined nor ''.
Truthy(s) == s # Undefined /\ s # <<>>

toLowerChar(c) ==
  CASE c = "G" -> "g"
    [] c = "H" -> "h"
    [] OTHER -> c

toLowerCase(s) == [i \in 1..Len(s) |-> toLowerChar(s[i])]

\* urlParams[key] on the parameter object: undefined when the key is not set.
ParamValue(urlParams, key) ==
  IF key \in DOMAIN urlParams THEN urlParams[key] ELSE Undefined

----------------------------------------------------------------------------
(* RoutingService: matching *)

\* Mutants of the guard: the key alone decides; a present (even empty) value
\* counts.
HasDependencyKeyOnly(x) == Truthy(x.dependsOnKey)

HasDependencyEmptyValue(x) ==
  Truthy(x.dependsOnKey) /\ x.dependsOnValue # Undefined

\* Mutant: either field alone makes a condition.
HasDependencyEither(x) == Truthy(x.dependsOnKey) \/ Truthy(x.dependsOnValue)

\* The guard `x.dependsOnKey && x.dependsOnValue` of both scans.
HasDependency(x) == Truthy(x.dependsOnKey) /\ Truthy(x.dependsOnValue)

\* The scan's test for one group or routing: not skipped by `continue`.
DependencyMet(x, urlParams) ==
  HasDependency(x) => ParamValue(urlParams, x.dependsOnKey) = x.dependsOnValue

\* Mutant: group names compared as written, not in lower case.
RECURSIVE GroupScanCaseSensitive(_, _, _, _)
GroupScanCaseSensitive(groups, i, path, urlParams) ==
  IF i > Len(groups) THEN Null
  ELSE IF groups[i].name # path \/ ~DependencyMet(groups[i], urlParams)
         THEN GroupScanCaseSensitive(groups, i + 1, path, urlParams)
       ELSE groups[i]

\* Mutant: the group's name is lower-cased, the path is not.
RECURSIVE GroupScanLowerName(_, _, _, _)
GroupScanLowerName(groups, i, path, urlParams) ==
  IF i > Len(groups) THEN Null
  ELSE IF toLowerCase(groups[i].name) # path \/ ~DependencyMet(groups[i], urlParams)
         THEN GroupScanLowerName(groups, i + 1, path, urlParams)
       ELSE groups[i]

RECURSIVE GroupScan(_, _, _, _)
GroupScan(groups, i, path, urlParams) ==
  IF i > Len(groups) THEN Null
  ELSE IF toLowerCase(groups[i].name) # toLowerCase(path)
         THEN GroupScan(groups, i + 1, path, urlParams)
       ELSE IF ~DependencyMet(groups[i], urlParams)
         THEN GroupScan(groups, i + 1, path, urlParams)
       ELSE groups[i]

findMatchingGroup(config, path, urlParams) ==
  IF config = Null THEN Null
  ELSE GroupScan(config.routingGroups, 1, path, urlParams)

\* Mutant: the last routing whose dependency is met, not the first.
RECURSIVE RoutingScanLast(_, _, _)
RoutingScanLast(routings, i, urlParams) ==
  IF i > Len(routings) THEN Null
  ELSE LET later == RoutingScanLast(routings, i + 1, urlParams) IN
       IF later # Null THEN later
       ELSE IF DependencyMet(routings[i], urlParams) THEN routings[i]
       ELSE Null

RECURSIVE RoutingScan(_, _, _)
RoutingScan(routings, i, urlParams) ==
  IF i > Len(routings) THEN Null
  ELSE IF ~DependencyMet(routings[i], urlParams)
         THEN RoutingScan(routings, i + 1, urlParams)
       ELSE routings[i]

\* Mutant: a sole routing is the default whatever its dependency.
findMatchingRoutingAnySole(group, urlParams) ==
  LET scanned == RoutingScan(group.routings, 1, urlParams) IN
  IF scanned # Null THEN scanned
  ELSE IF Len(group.routings) = 1 THEN group.routings[1]
       ELSE Null

\* Mutant: the first routing is the default of every group.
findMatchingRoutingFirstAsDefault(group, urlParams) ==
  LET scanned == RoutingScan(group.routings, 1, urlParams) IN
  IF scanned # Null THEN scanned ELSE group.routings[1]

findMatchingRouting(group, urlParams) ==
  LET scanned == RoutingScan(group.routings, 1, urlParams) IN
  IF scanned # Null THEN scanned
  ELSE IF /\ Len(group.routings) = 1
          /\ ~Truthy(group.routings[1].dependsOnKey)
          /\ ~Truthy(group.routings[1].dependsOnValue)
         THEN group.routings[1]
       ELSE Null

ErrNoConfiguration == "No routing configuration loaded"
ErrNoGroup == "No matching routing group found"
ErrNoRouting == "No matching routing found"

\* Mutant: the target returned is that of the configuration's first routing.
findRedirectFirstTarget(config, path, urlParams) ==
  IF config = Null THEN [found |-> FALSE, error |-> ErrNoConfiguration]
  ELSE LET matchingGroup == findMatchingGroup(config, path, urlParams) IN
       IF matchingGroup = Null THEN [found |-> FALSE, error |-> ErrNoGroup]
       ELSE LET matchingRouting == findMatchingRouting(matchingGroup, urlParams) IN
            IF matchingRouting = Null
              THEN [found |-> FALSE, error |-> ErrNoRouting]
            ELSE [found |-> TRUE,
                  targetUrl |-> config.routingGroups[1].routings[1].redirectTarget,
                  matchedGroup |-> matchingGroup.name,
                  matchedRouting |-> matchingRouting.name]

\* Mutant: a group without a matching routing is reported as a processing
\* error, the message of the catch block.
findRedirectProcessingError(config, path, urlParams) ==
  IF config = Null THEN [found |-> FALSE, error |-> ErrNoConfiguration]
  ELSE LET matchingGroup == findMatchingGroup(config, path, urlParams) IN
       IF matchingGroup = Null THEN [found |-> FALSE, error |-> ErrNoGroup]
       ELSE LET matchingRouting == findMatchingRouting(matchingGroup, urlParams) IN
            IF matchingRouting = Null
              THEN [found |-> FALSE, error |-> "Processing error: Unknown error"]
            ELSE [found |-> TRUE,
                  targetUrl |-> matchingRouting.redirectTarget,
                  matchedGroup |-> matchingGroup.name,
                  matchedRouting |-> matchingRouting.name]

\* RoutingService.findRedirect.  Nothing inside its try block throws for a
\* validated configuration, a string path and a parameter object, so the
\* catch block's 'Processing error' result does not occur.
findRedirect(config, path, urlParams) ==
  IF config = Null THEN [found |-> FALSE, error |-> ErrNoConfiguration]
  ELSE LET matchingGroup == findMatchingGroup(config, path, urlParams) IN
       IF matchingGroup = Null THEN [found |-> FALSE, error |-> ErrNoGroup]
       ELSE LET matchingRouting == findMatchingRouting(matchingGroup, urlParams) IN
            IF matchingRouting = Null
              THEN [found |-> FALSE, error |-> ErrNoRouting]
            ELSE [found |-> TRUE,
                  targetUrl |-> matchingRouting.redirectTarget,
                  matchedGroup |-> matchingGroup.name,
                  matchedRouting |-> matchingRouting.name]

----------------------------------------------------------------------------
(* RoutingService: validation *)

Letters == {"a", "b", "g", "h", "G", "H", "k", "r", "t", "v", "w", "x"}

\* new URL(s) without a base succeeds only on an absolute URL: a scheme (a
\* letter, then letters) followed by ':'.  The targets of the model use
\* non-special schemes, for which anything may follow the colon.
URLParses(s) ==
  \E n \in 2..Len(s) :
    /\ s[n] = ":"
    /\ \A i \in 1..(n - 1) : s[i] \in Letters

RECURSIVE RoutingsCheck(_, _)
validateRouting(routing) ==
  IF ~Truthy(routing.name) \/ ~IsString(routing.name)
    THEN "Routing name is required"
  ELSE IF ~Truthy(routing.redirectTarget) \/ ~IsString(routing.redirectTarget)
    THEN "Redirect target is required"
  ELSE IF ~URLParses(routing.redirectTarget) THEN "Invalid redirect target URL"
  ELSE "ok"

\* Mutant: only the first routing of a group is validated.
RoutingsCheckFirst(routings, i) == validateRouting(routings[1])

RoutingsCheck(routings, i) ==
  IF i > Len(routings) THEN "ok"
  ELSE LET r == validateRouting(routings[i]) IN
       IF r # "ok" THEN r ELSE RoutingsCheck(routings, i + 1)

validateRoutingGroup(group) ==
  IF ~Truthy(group.name) \/ ~IsString(group.name)
    THEN "Routing group name is required and must be a string"
  ELSE IF group.routings = NotAnArray THEN "Group routings must be an array"
  ELSE IF Len(group.routings) = 0 THEN "Routing group must have at least one routing"
  ELSE RoutingsCheck(group.routings, 1)

RECURSIVE GroupsCheck(_, _)
GroupsCheck(groups, i) ==
  IF i > Len(groups) THEN "ok"
  ELSE LET r == validateRoutingGroup(groups[i]) IN
       IF r # "ok" THEN r ELSE GroupsCheck(groups, i + 1)

\* Mutant: duplicates looked for among the names as written.
HasDuplicateNamesCaseSensitive(groups) ==
  Len(groups) # Cardinality({groups[i].name : i \in 1..Len(groups)})

\* Mutant: group names are not compared at all.
HasDuplicateNamesOff(groups) == FALSE

\* groupNames.length !== new Set(groupNames).size
HasDuplicateNames(groups) ==
  Len(groups) # Cardinality({toLowerCase(groups[i].name) : i \in 1..Len(groups)})

\* Mutant: duplicate names are looked for before the groups are validated.
validateConfigurationDuplicatesFirst(config) ==
  IF config = Null THEN "Configuration is null or undefined"
  ELSE IF ~Truthy(config.version) THEN "Configuration version is required"
  ELSE IF config.routingGroups = NotAnArray THEN "routingGroups must be an array"
  ELSE IF Len(config.routingGroups) = 0 THEN "At least one routing group is required"
  ELSE IF HasDuplicateNames(config.routingGroups)
    THEN "Duplicate routing group names found"
  ELSE GroupsCheck(config.routingGroups, 1)

\* RoutingService.validateConfiguration: "ok", or the message of the Error.
validateConfiguration(config) ==
  IF config = Null THEN "Configuration is null or undefined"
  ELSE IF ~Truthy(config.version) THEN "Configuration version is required"
  ELSE IF config.routingGroups = NotAnArray THEN "routingGroups must be an array"
  ELSE IF Len(config.routingGroups) = 0 THEN "At least one routing group is required"
  ELSE LET r == GroupsCheck(config.routingGroups, 1) IN
       IF r # "ok" THEN r
       ELSE IF HasDuplicateNames(config.routingGroups)
         THEN "Duplicate routing group names found"
       ELSE "ok"

\* Mutant: the configuration is stored before it is validated.
loadConfigurationStoreFirst(current, config) ==
  [configuration |-> config, threw |-> validateConfiguration(config) # "ok"]

\* Mutant: the groups of an accepted configuration are added to the stored
\* ones.
loadConfigurationMerge(current, config) ==
  IF validateConfiguration(config) # "ok"
    THEN [configuration |-> current, threw |-> TRUE]
  ELSE IF current = Null THEN [configuration |-> config, threw |-> FALSE]
  ELSE [configuration |->
          [config EXCEPT !.routingGroups = current.routingGroups \o @],
        threw |-> FALSE]

\* Mutant: a rejected configuration also discards the stored one.
loadConfigurationClearOnError(current, config) ==
  IF validateConfiguration(config) = "ok"
    THEN [configuration |-> config, threw |-> FALSE]
    ELSE [configuration |-> Null, threw |-> TRUE]

\* RoutingService.loadConfiguration: the new value of this.configuration and
\* whether the call threw.
loadConfiguration(current, config) ==
  IF validateConfiguration(config) = "ok"
    THEN [configuration |-> config, threw |-> FALSE]
    ELSE [configuration |-> current, threw |-> TRUE]

----------------------------------------------------------------------------
(* URLUtils *)

\* String.prototype.indexOf for one character: 0 when it does not occur.
IndexOf(s, c) ==
  IF \E i \in 1..Len(s) : s[i] = c
    THEN CHOOSE i \in 1..Len(s) : s[i] = c /\ \A j \in 1..(i - 1) : s[j] # c
    ELSE 0

startsWith(s, prefix) ==
  Len(s) >= Len(prefix) /\ SubSeq(s, 1, Len(prefix)) = prefix

\* String.prototype.split for a one-character separator.
RECURSIVE Split(_, _)
Split(s, c) ==
  IF IndexOf(s, c) = 0 THEN <<s>>
  ELSE <<SubSeq(s, 1, IndexOf(s, c) - 1)>>
         \o Split(SubSeq(s, IndexOf(s, c) + 1, Len(s)), c)

\* Array.prototype.join for a one-character separator.
RECURSIVE Join(_, _)
Join(parts, c) ==
  IF Len(parts) = 0 THEN <<>>
  ELSE IF Len(parts) = 1 THEN parts[1]
  ELSE parts[1] \o <<c>> \o Join(Tail(parts), c)

URIError == <<"URIError">>
TypeError == <<"TypeError">>

HexDigits == {"0", "1", "2", "3", "4", "5", "6", "7", "8", "9",
              "a", "b", "c", "d", "e", "f", "A", "B", "C", "D", "E", "F"}

\* The escapes the inputs use: %6b is k, %76 is v, %3d and %3D are =, %26 is
\* &, %25 is %, %2F is /, %3A is : and %3F is ?.
Escapes ==
  [pair \in {<<"6", "b">>, <<"7", "6">>, <<"3", "d">>, <<"3", "D">>,
             <<"2", "6">>, <<"2", "5">>, <<"2", "F">>, <<"3", "A">>,
             <<"3", "F">>} |->
     CASE pair = <<"6", "b">> -> "k"
       [] pair = <<"7", "6">> -> "v"
       [] pair = <<"3", "d">> -> "="
       [] pair = <<"3", "D">> -> "="
       [] pair = <<"2", "6">> -> "&"
       [] pair = <<"2", "5">> -> "%"
       [] pair = <<"2", "F">> -> "/"
       [] pair = <<"3", "A">> -> ":"
       [] pair = <<"3", "F">> -> "?"]

\* decodeURIComponent: the decoded string, or URIError when a '%' is not
\* followed by two hexadecimal digits (an escape outside Escapes is taken as
\* malformed too: the inputs use no other).
RECURSIVE decodeURIComponent(_)
decodeURIComponent(s) ==
  IF Len(s) = 0 THEN <<>>
  ELSE IF s[1] # "%"
    THEN LET rest == decodeURIComponent(Tail(s)) IN
         IF rest = URIError THEN URIError ELSE <<s[1]>> \o rest
  ELSE IF /\ Len(s) >= 3
          /\ s[2] \in HexDigits /\ s[3] \in HexDigits
          /\ <<s[2], s[3]>> \in DOMAIN Escapes
    THEN LET rest == decodeURIComponent(SubSeq(s, 4, Len(s))) IN
         IF rest = URIError THEN URIError
         ELSE <<Escapes[<<s[2], s[3]>>]>> \o rest
  ELSE URIError

\* params[key] = value on the parameter object.
SetParam(params, key, value) ==
  [x \in (DOMAIN params) \cup {key} |-> IF x = key THEN value ELSE params[x]]

\* The forEach of parseURLParams over the '&'-separated pairs; an exception
\* of decodeURIComponent ends it.
RECURSIVE ParsePairs(_, _, _)
ParsePairs(pairs, i, params) ==
  IF i > Len(pairs) THEN [threw |-> FALSE, params |-> params]
  ELSE LET parts == Split(pairs[i], "=")
           key == parts[1]
           value == Join(Tail(parts), "=")
       IN
       IF key = <<>> THEN ParsePairs(pairs, i + 1, params)
       ELSE LET decodedKey == decodeURIComponent(key)
                decodedValue == IF value # <<>> THEN decodeURIComponent(value)
                                ELSE <<>>
            IN
            IF decodedKey = URIError \/ decodedValue = URIError
              THEN [threw |-> TRUE, error |-> "URIError"]
            ELSE ParsePairs(pairs, i + 1,
                            SetParam(params, decodedKey, decodedValue))

\* URLUtils.parseURLParams: the parameter object, or that it threw.
parseURLParams(search) ==
  IF Len(search) <= 1 THEN [threw |-> FALSE, params |-> <<>>]
  ELSE LET queryString == IF startsWith(search, <<"?">>) THEN Tail(search)
                          ELSE search
       IN ParsePairs(Split(queryString, "&"), 1, <<>>)

HttpPrefix == <<"h", "t", "t", "p", ":", "/", "/">>
HttpsPrefix == <<"h", "t", "t", "p", "s", ":", "/", "/">>

\* The part of s before the first of '?' and '#'.
BeforeQueryOrFragment(s) ==
  LET cut == {i \in 1..Len(s) : s[i] \in {"?", "#"}} IN
  IF cut = {} THEN s
  ELSE SubSeq(s, 1, (CHOOSE i \in cut : \A j \in cut : i <= j) - 1)

\* What follows "//" in an absolute http(s) URL or a scheme-relative one.
AfterSlashes(url) ==
  IF startsWith(url, HttpsPrefix) THEN SubSeq(url, Len(HttpsPrefix) + 1, Len(url))
  ELSE IF startsWith(url, HttpPrefix) THEN SubSeq(url, Len(HttpPrefix) + 1, Len(url))
  ELSE IF startsWith(url, <<"/", "/">>) THEN SubSeq(url, 3, Len(url))
  ELSE Undefined

\* The URL parser fails on an http(s) or scheme-relative URL with no host.
HostMissing(url) ==
  /\ AfterSlashes(url) # Undefined
  /\ LET rest == BeforeQueryOrFragment(AfterSlashes(url)) IN
     Len(rest) = 0 \/ rest[1] = "/"

\* new URL(url).pathname of an absolute http(s) URL: from the first '/'
\* after the host to the query or fragment, '/' when there is none.
Pathname(url) ==
  IF HostMissing(url) THEN TypeError
  ELSE LET rest == BeforeQueryOrFragment(AfterSlashes(url)) IN
       IF IndexOf(rest, "/") = 0 THEN <<"/">>
       ELSE SubSeq(rest, IndexOf(rest, "/"), Len(rest))

\* URLUtils.extractPath
extractPath(url) ==
  LET beforeQuery == Split(url, "?")[1]
      pathname == IF startsWith(url, HttpPrefix) \/ startsWith(url, HttpsPrefix)
                    THEN Pathname(url)
                    ELSE beforeQuery
      chosen == IF pathname = TypeError THEN beforeQuery ELSE pathname
  IN IF startsWith(chosen, <<"/">>) THEN Tail(chosen) ELSE chosen

\* new URL(url, 'https://example.com').search: '?' and the query, the empty
\* string when the query is empty or missing; TypeError when the parser fails.
SearchOf(url) ==
  IF HostMissing(url) THEN TypeError
  ELSE LET q == IndexOf(url, "?")
           h == IndexOf(url, "#")
       IN
       IF q = 0 \/ (h # 0 /\ h < q) THEN <<>>
       ELSE LET query == BeforeQueryOrFragment(SubSeq(url, q + 1, Len(url))) IN
            IF Len(query) = 0 THEN <<>> ELSE <<"?">> \o query

----------------------------------------------------------------------------
(* ConfigurationService *)

Loaded == [date |-> TRUE]

\* ConfigurationService.validateConfiguration: "ok", or the Error's message.
validateObject(config) ==
  IF config = Null THEN "Configuration must be a valid object"
  ELSE IF ~Truthy(config.version)
    THEN "Configuration version is required and must be a string"
  ELSE IF config.routingGroups = NotAnArray THEN "routingGroups must be an array"
  ELSE "ok"

\* config.version and config.routingGroups.length of the log calls throw a
\* TypeError on null and on a missing routingGroups.
LogThrows(config) == config = Null \/ config.routingGroups = NotAnArray

\* ConfigurationService.loadFromObject: cache and lastLoaded after the call,
\* and whether it threw.
loadFromObject(cache, loaded, config) ==
  IF LogThrows(config) \/ validateObject(config) # "ok"
    THEN [configCache |-> cache, lastLoaded |-> loaded, threw |-> TRUE]
    ELSE [configCache |-> config, lastLoaded |-> Loaded, threw |-> FALSE]

\* ConfigurationService.loadFromFile once the response has arrived: a
\* response that is not ok throws; the parsed body is cached unvalidated.
FetchFailed == [ok |-> FALSE]

loadFromFile(cache, loaded, response) ==
  IF response = FetchFailed
    THEN [configCache |-> cache, lastLoaded |-> loaded, threw |-> TRUE]
    ELSE [configCache |-> response, lastLoaded |-> Loaded,
          threw |-> LogThrows(response)]

\* ConfigurationService.reloadConfiguration: the cached configuration or null.
reloadConfiguration(cache) == cache

----------------------------------------------------------------------------
(* AKAService: synchronous parts *)

ErrNotInitialized == "Service not initialized. Call initialize() first."

\* Mutant: the guard looks at the matcher's configuration, not at the flag.
NotReadyNoConfiguration(initialized, config) == config = Null

\* The guard `!this.isInitialized` of processRedirect.
NotReady(initialized, config) == ~initialized

\* AKAService.getStatus, without lastConfigLoad.
getStatus(initialized, cache) ==
  IF cache = Null
    THEN [initialized |-> initialized, configLoaded |-> FALSE]
    ELSE [initialized |-> initialized, configLoaded |-> TRUE,
          configVersion |-> cache.version,
          groupCount |-> Len(cache.routingGroups)]

\* Mutant: a failed resolution is signalled with a message of its own, not
\* with the matcher's.
processRedirectOwnMessage(initialized, config, url) ==
  IF NotReady(initialized, config)
    THEN [threw |-> TRUE, error |-> ErrNotInitialized, consulted |-> FALSE]
  ELSE LET path == extractPath(url)
           search == SearchOf(url)
       IN
       IF search = TypeError
         THEN [threw |-> TRUE, error |-> "TypeError", consulted |-> FALSE]
       ELSE IF parseURLParams(search).threw
         THEN [threw |-> TRUE, error |-> "URIError", consulted |-> FALSE]
       ELSE LET result == findRedirect(config, path, parseURLParams(search).params) IN
            IF ~result.found \/ ~Truthy(result.targetUrl)
              THEN [threw |-> TRUE, error |-> "No redirect target found",
                    consulted |-> TRUE]
            ELSE [threw |-> FALSE, targetUrl |-> result.targetUrl,
                  consulted |-> TRUE]

\* AKAService.processRedirect: what it returns or throws, and whether it
\* called routingService.findRedirect.
processRedirect(initialized, config, url) ==
  IF NotReady(initialized, config)
    THEN [threw |-> TRUE, error |-> ErrNotInitialized, consulted |-> FALSE]
  ELSE LET path == extractPath(url)
           search == SearchOf(url)
       IN
       IF search = TypeError
         THEN [threw |-> TRUE, error |-> "TypeError", consulted |-> FALSE]
       ELSE IF parseURLParams(search).threw
         THEN [threw |-> TRUE, error |-> "URIError", consulted |-> FALSE]
       ELSE LET result == findRedirect(config, path, parseURLParams(search).params) IN
            IF ~result.found
              THEN [threw |-> TRUE, error |-> result.error, consulted |-> TRUE]
            ELSE IF ~Truthy(result.targetUrl)
              THEN [threw |-> TRUE, error |-> "No redirect target found",
                    consulted |-> TRUE]
            ELSE [threw |-> FALSE, targetUrl |-> result.targetUrl,
                  consulted |-> TRUE]

----------------------------------------------------------------------------
(* Inputs *)

MaxGroups == 2
MaxRoutings == 2

K == <<"k">>
V == <<"v">>

GroupNames == {<<"g">>, <<"G">>, <<"h">>}

\* (dependsOnKey, dependsOnValue) of a group: none, a full pair, a key with
\* the empty value, a value alone.
GroupDeps ==
  {<<Undefined, Undefined>>, <<K, V>>, <<K, <<>>>>, <<Undefined, V>>}

\* (dependsOnKey, dependsOnValue) of a routing: none, a full pair, a key
\* with the empty value, a key alone.
RoutingDeps ==
  {<<Undefined, Undefined>>, <<K, V>>, <<K, <<>>>>, <<K, Undefined>>}

Digits == <<"1", "2", "3", "4">>

SeqsUpTo(S, n) == UNION {[1..m -> S] : m \in 0..n}

MkRouting(gi, ri, dep) ==
  [name |-> <<"r", Digits[gi], Digits[ri]>>,
   dependsOnKey |-> dep[1],
   dependsOnValue |-> dep[2],
   redirectTarget |-> <<"x", ":", Digits[gi], Digits[ri]>>]

\* heads: a (name, DepPair) per group; deps: a DepPair per routing.  Every
\* group has Len(deps) routings; names and targets differ per position.
MkConfig(version, heads, deps) ==
  [version |-> version,
   routingGroups |->
     [gi \in 1..Len(heads) |->
        [name |-> heads[gi][1],
         dependsOnKey |-> heads[gi][2][1],
         dependsOnValue |-> heads[gi][2][2],
         routings |-> [ri \in 1..Len(deps) |-> MkRouting(gi, ri, deps[ri])]]]]

HeadNames(heads) == [i \in 1..Len(heads) |-> toLowerCase(heads[i][1])]

DistinctNames(heads) ==
  \A i, j \in 1..Len(heads) : HeadNames(heads)[i] = HeadNames(heads)[j] => i = j

\* Configurations for matching: groups of distinct names (compared in lower
\* case), each with its own dependency, and up to MaxRoutings routings.
MatchConfigs ==
  {MkConfig(<<"1">>, heads, deps) :
     heads \in {h \in SeqsUpTo(GroupNames \X GroupDeps, MaxGroups) :
                  Len(h) > 0 /\ DistinctNames(h)},
     deps \in SeqsUpTo(RoutingDeps, MaxRoutings) \ {<<>>}}

\* Configurations for the group-level checks: any list of up to MaxGroups
\* names, repeated or not, each group with one unconditional routing.
NameConfigs ==
  {MkConfig(<<"1">>, [i \in 1..Len(names) |-> <<names[i], <<Undefined, Undefined>>>>],
            <<<<Undefined, Undefined>>>>) :
     names \in SeqsUpTo(GroupNames, MaxGroups)}

\* Two groups g and h with two unconditional routings each.
SoundConfig ==
  MkConfig(<<"1">>, <<<<<<"g">>, <<Undefined, Undefined>>>>,
                      <<<<"h">>, <<Undefined, Undefined>>>>>>,
           <<<<Undefined, Undefined>>, <<Undefined, Undefined>>>>)

\* What a name can be instead of a non-empty string; what routings can be
\* instead of a non-empty array; what a redirectTarget can be instead of an
\* absolute URL ('g', '/g' and ':g' have no scheme).
BadNames == {<<>>, Undefined, NotAString}

BadRoutings == {<<>>, NotAnArray}

BadTargets ==
  {<<>>, Undefined, NotAString, <<"g">>, <<"/", "g">>, <<":", "g">>}

\* SoundConfig with one defect, in either group or in any of the routings.
DefectConfigs ==
  {[SoundConfig EXCEPT !.routingGroups[gi].name = name] :
     gi \in 1..2, name \in BadNames}
  \cup {[SoundConfig EXCEPT !.routingGroups[gi].routings = routings] :
          gi \in 1..2, routings \in BadRoutings}
  \cup {[SoundConfig EXCEPT !.routingGroups[gi].routings[ri].name = name] :
          gi \in 1..2, ri \in 1..2, name \in BadNames}
  \cup {[SoundConfig EXCEPT
           !.routingGroups[gi].routings[ri].redirectTarget = target] :
          gi \in 1..2, ri \in 1..2, target \in BadTargets}

\* A defect together with group names that differ at most in case: the
\* second group renamed to 'G', or both groups with the same unusable name.
DuplicateDefectConfigs ==
  {[config EXCEPT !.routingGroups[2].name = <<"G">>] :
     config \in {c \in DefectConfigs : /\ c.routingGroups[1].name = <<"g">>
                                       /\ c.routingGroups[2].name = <<"h">>}}
  \cup {[SoundConfig EXCEPT !.routingGroups[1].name = name,
                            !.routingGroups[2].name = name] :
          name \in BadNames}

ConfigInputs ==
  MatchConfigs \cup NameConfigs \cup DefectConfigs \cup DuplicateDefectConfigs

Paths == {<<"g">>, <<"G">>, <<"h">>}

\* Parameter objects: empty, the key k with '' or 'v', an unrelated key.
ParamInputs ==
  {<<>>} \cup {[key \in {K} |-> val] : val \in {<<>>, V}}
         \cup {[key \in {<<"j">>} |-> V]}

GroupNamesOf(config) ==
  [i \in 1..Len(config.routingGroups) |-> config.routingGroups[i].name]

----------------------------------------------------------------------------
(* A RoutingService used on its own, as by its unit tests *)

\* No findRedirect call is remembered.
NoHistory == [stage |-> "none"]

\* No page: the services are used by a program of another kind.
NoApp == [stage |-> "none"]

IdleService ==
  /\ app = NoApp
  /\ isInitialized = FALSE
  /\ configCache = Null
  /\ lastLoaded = Null
  /\ calls = {}
  /\ lastInit = Null
  /\ prevInit = Null
  /\ reloadSince = FALSE
  /\ history = NoHistory

InitMatch ==
  /\ configuration = Null
  /\ obs = [op |-> "none"]
  /\ IdleService

\* routingService.loadConfiguration(config) on a service that holds none.
LoadConfiguration(config) ==
  /\ configuration = Null
  /\ LET r == loadConfiguration(configuration, config) IN
     /\ configuration' = r.configuration
     /\ obs' = [op |-> "loadConfiguration",
                config |-> config,
                groupNames |-> GroupNamesOf(config),
                threw |-> r.threw,
                error |-> validateConfiguration(config)]
  /\ UNCHANGED <<isInitialized, configCache, lastLoaded, calls, lastInit, prevInit, reloadSince, history, app>>

\* routingService.findRedirect(path, urlParams)
FindRedirect(path, urlParams) ==
  /\ configuration # Null
  /\ obs' = [op |-> "findRedirect", path |-> path, urlParams |-> urlParams,
             result |-> findRedirect(configuration, path, urlParams)]
  /\ UNCHANGED <<configuration, isInitialized, configCache, lastLoaded, calls,
                 lastInit, prevInit, reloadSince, history, app>>

NextMatch ==
  \/ /\ configuration = Null
     /\ \E config \in ConfigInputs : LoadConfiguration(config)
  \/ \E path \in Paths, urlParams \in ParamInputs : FindRedirect(path, urlParams)

SpecMatch == InitMatch /\ [][NextMatch]_vars

----------------------------------------------------------------------------
(* Vocabulary of the claims about matching *)

\* A dependency condition: dependsOnKey and dependsOnValue both non-empty.
Conditional(x) ==
  /\ x.dependsOnKey \notin {Undefined, <<>>}
  /\ x.dependsOnValue \notin {Undefined, <<>>}

\* params holds the key with exactly the value; an absent key never does.
Holds(key, value, urlParams) ==
  key \in DOMAIN urlParams /\ urlParams[key] = value

Qualifies(x, urlParams) ==
  ~Conditional(x) \/ Holds(x.dependsOnKey, x.dependsOnValue, urlParams)

SameNameIgnoringCase(a, b) == toLowerCase(a) = toLowerCase(b)

Least(S) == CHOOSE i \in S : \A j \in S : i <= j

\* Positions of the groups that are candidates for the path and qualify.
SelectableGroups(config, path, urlParams) ==
  {i \in 1..Len(config.routingGroups) :
     /\ SameNameIgnoringCase(config.routingGroups[i].name, path)
     /\ Qualifies(config.routingGroups[i], urlParams)}

QualifyingRoutings(group, urlParams) ==
  {j \in 1..Len(group.routings) : Qualifies(group.routings[j], urlParams)}

Found(o) == o.op = "findRedirect" /\ o.result.found

NotFound(o, error) ==
  o.op = "findRedirect" /\ o.result = [found |-> FALSE, error |-> error]

\* C1: when a group is selected, findRedirect returns found=true with the
\* redirectTarget and name of the first routing of that group, in declaration
\* order, that has no condition or whose condition params satisfies; a later
\* routing is never returned when an earlier one qualifies.
C1_FirstMatchWins ==
  obs.op = "findRedirect" =>
    LET sel == SelectableGroups(configuration, obs.path, obs.urlParams) IN
    sel # {} =>
      LET group == configuration.routingGroups[Least(sel)]
          q == QualifyingRoutings(group, obs.urlParams) IN
      q # {} =>
        /\ obs.result.found
        /\ obs.result.targetUrl = group.routings[Least(q)].redirectTarget
        /\ obs.result.matchedRouting = group.routings[Least(q)].name

\* Two routings of the selected group qualify and the first one was returned.
C1_Witness ==
  /\ Found(obs)
  /\ LET sel == SelectableGroups(configuration, obs.path, obs.urlParams) IN
     /\ sel # {}
     /\ LET group == configuration.routingGroups[Least(sel)] IN
        /\ Cardinality(QualifyingRoutings(group, obs.urlParams)) >= 2
        /\ Conditional(group.routings[1])
        /\ obs.result.matchedRouting = group.routings[1].name

\* C2: findRedirect returns found=false with 'No matching routing group
\* found' if and only if no group has a name equal to the path ignoring case
\* and a condition that is absent or satisfied by exact equality.
C2_GroupSelection ==
  obs.op = "findRedirect" =>
    (NotFound(obs, ErrNoGroup)
       <=> SelectableGroups(configuration, obs.path, obs.urlParams) = {})

\* A group has the path's name in another case and a condition on a key that
\* params does not hold: no group is selected.
C2_Witness ==
  /\ NotFound(obs, ErrNoGroup)
  /\ \E i \in 1..Len(configuration.routingGroups) :
       LET group == configuration.routingGroups[i] IN
       /\ SameNameIgnoringCase(group.name, obs.path)
       /\ group.name # obs.path
       /\ Conditional(group)
       /\ group.dependsOnKey \notin DOMAIN obs.urlParams

NamesDistinctIgnoringCase(names) ==
  \A i, j \in 1..Len(names) :
    SameNameIgnoringCase(names[i], names[j]) => i = j

\* C3: every configuration accepted by loadConfiguration has at least one
\* group and group names that are pairwise distinct ignoring case; a
\* configuration with no group, or with two groups whose names differ at most
\* in case, is rejected with an error and is not stored.
C3_AcceptedGroupsDistinct ==
  /\ configuration # Null =>
       /\ Len(configuration.routingGroups) > 0
       /\ NamesDistinctIgnoringCase(GroupNamesOf(configuration))
  /\ (/\ obs.op = "loadConfiguration"
      /\ \/ Len(obs.groupNames) = 0
         \/ ~NamesDistinctIgnoringCase(obs.groupNames))
       => /\ obs.threw
          /\ obs.error # "ok"
          /\ configuration = Null

\* A configuration whose two group names differ only in case was rejected.
C3_Witness ==
  /\ obs.op = "loadConfiguration"
  /\ obs.threw
  /\ Len(obs.groupNames) = 2
  /\ obs.groupNames[1] # obs.groupNames[2]
  /\ SameNameIgnoringCase(obs.groupNames[1], obs.groupNames[2])
  /\ configuration = Null

\* A key with the empty string as its required value.
EmptyValued(x) ==
  x.dependsOnKey \notin {Undefined, <<>>} /\ x.dependsOnValue = <<>>

MatchedGroup(o) ==
  LET groups == configuration.routingGroups IN
  groups[CHOOSE i \in 1..Len(groups) : groups[i].name = o.result.matchedGroup]

MatchedRouting(o) ==
  LET routings == MatchedGroup(o).routings IN
  routings[CHOOSE j \in 1..Len(routings) :
             routings[j].name = o.result.matchedRouting]

\* C4 as claimed: a group or routing with a dependsOnKey and an empty-string
\* dependsOnValue is selected only when params holds that key with the empty
\* string as its value.
C4_EmptyValueRequired ==
  Found(obs) =>
    /\ EmptyValued(MatchedGroup(obs)) =>
         Holds(MatchedGroup(obs).dependsOnKey, <<>>, obs.urlParams)
    /\ EmptyValued(MatchedRouting(obs)) =>
         Holds(MatchedRouting(obs).dependsOnKey, <<>>, obs.urlParams)

\* C4 as amended: a group or routing with a dependsOnKey and an empty-string
\* dependsOnValue has no condition.  A group of the path's name with such a
\* pair is selected for every params, and a routing with such a pair in the
\* selected group is never passed over: the result is that routing or one
\* declared before it.
C4_EmptyValueIsNoCondition ==
  obs.op = "findRedirect" =>
    \A i \in 1..Len(configuration.routingGroups) :
      LET group == configuration.routingGroups[i] IN
      /\ (SameNameIgnoringCase(group.name, obs.path) /\ EmptyValued(group))
           => /\ ~NotFound(obs, ErrNoGroup)
              /\ obs.result.found => obs.result.matchedGroup = group.name
      /\ (Found(obs) /\ obs.result.matchedGroup = group.name)
           => \A j \in 1..Len(group.routings) :
                EmptyValued(group.routings[j]) =>
                  \E n \in 1..j :
                    obs.result.matchedRouting = group.routings[n].name
      /\ (/\ SameNameIgnoringCase(group.name, obs.path)
          /\ Qualifies(group, obs.urlParams)
          /\ \E j \in 1..Len(group.routings) : EmptyValued(group.routings[j]))
           => obs.result.found

\* params lacks the key, and a group and a routing that both require the
\* empty string for it were selected.
C4_Witness ==
  /\ Found(obs)
  /\ EmptyValued(MatchedGroup(obs))
  /\ EmptyValued(MatchedRouting(obs))
  /\ MatchedGroup(obs).dependsOnKey \notin DOMAIN obs.urlParams

\* The group selected for the path, when there is one.
HasSelectedGroup(o) ==
  /\ o.op = "findRedirect"
  /\ SelectableGroups(configuration, o.path, o.urlParams) # {}

SelectedGroup(o) ==
  configuration.routingGroups[
    Least(SelectableGroups(configuration, o.path, o.urlParams))]

\* C9: when the selected group has exactly one routing and that routing has
\* a condition (non-empty key and value) that params does not satisfy,
\* findRedirect returns found=false with 'No matching routing found'.
C9_FallbackExclusion ==
  (/\ HasSelectedGroup(obs)
   /\ Len(SelectedGroup(obs).routings) = 1
   /\ Conditional(SelectedGroup(obs).routings[1])
   /\ ~Qualifies(SelectedGroup(obs).routings[1], obs.urlParams))
    => NotFound(obs, ErrNoRouting)

\* The sole routing of the selected group is conditional and params holds
\* its key with another value.
C9_Witness ==
  /\ HasSelectedGroup(obs)
  /\ Len(SelectedGroup(obs).routings) = 1
  /\ Conditional(SelectedGroup(obs).routings[1])
  /\ SelectedGroup(obs).routings[1].dependsOnKey \in DOMAIN obs.urlParams
  /\ ~Qualifies(SelectedGroup(obs).routings[1], obs.urlParams)
  /\ NotFound(obs, ErrNoRouting)

\* C10: when the selected group has exactly one routing and that routing has
\* no condition, findRedirect returns found=true with that routing's
\* redirectTarget, for every params (the empty one and unrelated keys too).
C10_FallbackRule ==
  (/\ HasSelectedGroup(obs)
   /\ Len(SelectedGroup(obs).routings) = 1
   /\ ~Conditional(SelectedGroup(obs).routings[1]))
    => /\ obs.result.found
       /\ obs.result.targetUrl = SelectedGroup(obs).routings[1].redirectTarget
       /\ obs.result.matchedGroup = SelectedGroup(obs).name

\* A sole unconditional routing was returned for params with an unrelated key.
C10_Witness ==
  /\ HasSelectedGroup(obs)
  /\ Len(SelectedGroup(obs).routings) = 1
  /\ SelectedGroup(obs).routings[1].dependsOnKey = Undefined
  /\ SelectedGroup(obs).routings[1].dependsOnValue = Undefined
  /\ DOMAIN obs.urlParams = {<<"j">>}
  /\ Found(obs)
  /\ obs.result.targetUrl = SelectedGroup(obs).routings[1].redirectTarget

----------------------------------------------------------------------------
(* AKAService with the shared ConfigurationService *)

MaxCalls == 2

\* cA: groups g and h, one unconditional routing each.
ConfigA ==
  MkConfig(<<"1">>, <<<<<<"g">>, <<Undefined, Undefined>>>>,
                      <<<<"h">>, <<Undefined, Undefined>>>>>>,
           <<<<Undefined, Undefined>>>>)

\* cB: one group G; a routing for k=v, then an unconditional one; targets
\* that cA does not have.
ConfigB ==
  [version |-> <<"2">>,
   routingGroups |->
     <<[name |-> <<"G">>,
        dependsOnKey |-> Undefined,
        dependsOnValue |-> Undefined,
        routings |->
          <<[name |-> <<"r", "b", "1">>,
             dependsOnKey |-> K,
             dependsOnValue |-> V,
             redirectTarget |-> <<"x", ":", "b", "1">>],
            [name |-> <<"r", "b", "2">>,
             dependsOnKey |-> Undefined,
             dependsOnValue |-> Undefined,
             redirectTarget |-> <<"x", ":", "b", "2">>]>>]>>]

\* No version: rejected by ConfigurationService.validateConfiguration.
ConfigNoVersion == MkConfig(<<>>, <<<<<<"g">>, <<Undefined, Undefined>>>>>>,
                            <<<<Undefined, Undefined>>>>)

\* No group: accepted by ConfigurationService, rejected by RoutingService.
ConfigNoGroups == MkConfig(<<"3">>, <<>>, <<>>)

ServiceConfigs == {ConfigA, ConfigB, ConfigNoVersion, ConfigNoGroups}

\* What the fetch of the configuration file can bring: no usable response,
\* or a body that parses to a configuration with a version.
FileResponses == {FetchFailed, ConfigA, ConfigB, ConfigNoGroups}

\* '/g', '/h' and '/G?k=v'
UrlInputs ==
  {<<"/", "g">>, <<"/", "h">>, <<"/", "G", "?", "k", "=", "v">>}

\* What a caller can observe of the service.
Observable ==
  [configuration |-> configuration,
   initialized |-> isInitialized,
   status |-> getStatus(isInitialized, configCache)]

ObservableNext ==
  [configuration |-> configuration',
   initialized |-> isInitialized',
   status |-> getStatus(isInitialized', configCache')]

InitService ==
  /\ configuration = Null
  /\ obs = [op |-> "none"]
  /\ IdleService

\* Mutant: the flag is set before the configuration is loaded.
InitializeObjectFlagFirst(config) ==
  LET cs == loadFromObject(configCache, lastLoaded, config)
      rs == IF cs.threw THEN [configuration |-> configuration, threw |-> TRUE]
            ELSE loadConfiguration(configuration, config)
  IN
  /\ configCache' = cs.configCache
  /\ lastLoaded' = cs.lastLoaded
  /\ configuration' = rs.configuration
  /\ isInitialized' = TRUE
  /\ lastInit' = IF rs.threw THEN lastInit ELSE config
  /\ prevInit' = IF rs.threw THEN prevInit ELSE lastInit
  /\ reloadSince' = IF rs.threw THEN reloadSince ELSE FALSE
  /\ obs' = [op |-> "initialize", source |-> "object", pending |-> FALSE,
             config |-> config, threw |-> rs.threw, before |-> Observable, after |-> ObservableNext]
  /\ UNCHANGED <<calls, history, app>>

\* await akaService.initialize(config) with a configuration object: no
\* await suspends it, the call runs to its end in one step.
InitializeObject(config) ==
  LET cs == loadFromObject(configCache, lastLoaded, config)
      rs == IF cs.threw THEN [configuration |-> configuration, threw |-> TRUE]
            ELSE loadConfiguration(configuration, config)
  IN
  /\ configCache' = cs.configCache
  /\ lastLoaded' = cs.lastLoaded
  /\ configuration' = rs.configuration
  /\ isInitialized' = IF rs.threw THEN isInitialized ELSE TRUE
  /\ lastInit' = IF rs.threw THEN lastInit ELSE config
  /\ prevInit' = IF rs.threw THEN prevInit ELSE lastInit
  /\ reloadSince' = IF rs.threw THEN reloadSince ELSE FALSE
  /\ obs' = [op |-> "initialize", source |-> "object", pending |-> FALSE,
             config |-> config, threw |-> rs.threw, before |-> Observable, after |-> ObservableNext]
  /\ UNCHANGED <<calls, history, app>>

\* akaService.initialize(path): suspended at the fetch of loadFromFile.
InitializeFileStart ==
  /\ Cardinality(calls) < MaxCalls
  /\ [kind |-> "initialize", stage |-> "fetch"] \notin calls
  /\ calls' = calls \cup {[kind |-> "initialize", stage |-> "fetch"]}
  /\ obs' = [op |-> "initialize", source |-> "file", pending |-> TRUE]
  /\ UNCHANGED <<configuration, isInitialized, configCache, lastLoaded,
                 lastInit, prevInit, reloadSince, history, app>>

\* The response and its body arrive: loadFromFile runs to its end, and
\* initialize stays suspended at its await, or ends if loadFromFile threw.
FileLoaded(response) ==
  LET call == [kind |-> "initialize", stage |-> "fetch"]
      cs == loadFromFile(configCache, lastLoaded, response)
  IN
  /\ call \in calls
  /\ configCache' = cs.configCache
  /\ lastLoaded' = cs.lastLoaded
  /\ IF cs.threw
       THEN /\ calls' = calls \ {call}
            /\ obs' = [op |-> "initialize", source |-> "file",
                       pending |-> FALSE, threw |-> TRUE]
       ELSE /\ calls' = (calls \ {call})
                          \cup {[kind |-> "initialize", stage |-> "loaded",
                                 config |-> response]}
            /\ obs' = [op |-> "loadFromFile", threw |-> FALSE]
  /\ UNCHANGED <<configuration, isInitialized, lastInit, prevInit, reloadSince, history, app>>

\* initialize resumes with the configuration loadFromFile returned.
InitializeResume(call) ==
  /\ call \in calls
  /\ call.kind = "initialize" /\ call.stage = "loaded"
  /\ LET rs == loadConfiguration(configuration, call.config) IN
     /\ configuration' = rs.configuration
     /\ isInitialized' = IF rs.threw THEN isInitialized ELSE TRUE
     /\ lastInit' = IF rs.threw THEN lastInit ELSE call.config
     /\ prevInit' = IF rs.threw THEN prevInit ELSE lastInit
     /\ reloadSince' = IF rs.threw THEN reloadSince ELSE FALSE
     /\ obs' = [op |-> "initialize", source |-> "file", pending |-> FALSE,
                threw |-> rs.threw]
  /\ calls' = calls \ {call}
  /\ UNCHANGED <<configCache, lastLoaded, history, app>>

\* akaService.reloadConfiguration(): suspended at its await with what
\* configurationService.reloadConfiguration returned.
ReloadStart ==
  LET call == [kind |-> "reload", stage |-> "loaded",
               config |-> reloadConfiguration(configCache)]
  IN
  /\ Cardinality(calls) < MaxCalls
  /\ call \notin calls
  /\ calls' = calls \cup {call}
  /\ obs' = [op |-> "reloadConfiguration", pending |-> TRUE]
  /\ UNCHANGED <<configuration, isInitialized, configCache, lastLoaded,
                 lastInit, prevInit, reloadSince, history, app>>

\* Mutant: a reload that loads a configuration marks the service initialized.
ReloadResumeSetsFlag(call) ==
  /\ call \in calls
  /\ call.kind = "reload"
  /\ LET rs == IF call.config = Null
                 THEN [configuration |-> configuration, threw |-> FALSE]
                 ELSE loadConfiguration(configuration, call.config)
     IN
     /\ configuration' = rs.configuration
     /\ isInitialized' = IF call.config # Null /\ ~rs.threw THEN TRUE
                         ELSE isInitialized
     /\ reloadSince' = IF call.config # Null /\ ~rs.threw THEN TRUE
                       ELSE reloadSince
     /\ obs' = [op |-> "reloadConfiguration", pending |-> FALSE,
                threw |-> rs.threw]
  /\ calls' = calls \ {call}
  /\ UNCHANGED <<configCache, lastLoaded, lastInit, prevInit, history, app>>

\* reloadConfiguration resumes: a configuration that is not null is loaded.
ReloadResume(call) ==
  /\ call \in calls
  /\ call.kind = "reload"
  /\ LET rs == IF call.config = Null
                 THEN [configuration |-> configuration, threw |-> FALSE]
                 ELSE loadConfiguration(configuration, call.config)
     IN
     /\ configuration' = rs.configuration
     /\ reloadSince' = IF call.config # Null /\ ~rs.threw THEN TRUE
                       ELSE reloadSince
     /\ obs' = [op |-> "reloadConfiguration", pending |-> FALSE,
                threw |-> rs.threw]
  /\ calls' = calls \ {call}
  /\ UNCHANGED <<isInitialized, configCache, lastLoaded, lastInit, prevInit, history, app>>

\* akaService.processRedirect(url)
ProcessRedirect(url) ==
  /\ obs' = [op |-> "processRedirect", url |-> url,
             outcome |-> processRedirect(isInitialized, configuration, url),
             lastInit |-> lastInit, prevInit |-> prevInit,
             reloadSince |-> reloadSince,
             inFlight |-> calls # {}]
  /\ UNCHANGED <<configuration, isInitialized, configCache, lastLoaded, calls,
                 lastInit, prevInit, reloadSince, history, app>>

\* akaService.getStatus()
GetStatus ==
  /\ obs' = [op |-> "getStatus", status |-> getStatus(isInitialized, configCache)]
  /\ UNCHANGED <<configuration, isInitialized, configCache, lastLoaded, calls,
                 lastInit, prevInit, reloadSince, history, app>>

\* configurationService.clearCache(), by any user of the shared instance.
ClearCache ==
  /\ configCache' = Null
  /\ lastLoaded' = Null
  /\ obs' = [op |-> "clearCache"]
  /\ UNCHANGED <<configuration, isInitialized, calls, lastInit, prevInit, reloadSince, history, app>>

\* configurationService.loadFromObject(config) by another user of the shared
\* instance, such as the initialize of another AKAService.
SharedLoadFromObject(config) ==
  LET cs == loadFromObject(configCache, lastLoaded, config) IN
  /\ configCache' = cs.configCache
  /\ lastLoaded' = cs.lastLoaded
  /\ obs' = [op |-> "loadFromObject", threw |-> cs.threw]
  /\ UNCHANGED <<configuration, isInitialized, calls, lastInit, prevInit, reloadSince, history, app>>

NextService ==
  \/ \E config \in ServiceConfigs : InitializeObject(config)
  \/ InitializeFileStart
  \/ \E response \in FileResponses : FileLoaded(response)
  \/ \E call \in calls : InitializeResume(call)
  \/ ReloadStart
  \/ \E call \in calls : ReloadResume(call)
  \/ \E url \in UrlInputs : ProcessRedirect(url)
  \/ GetStatus
  \/ ClearCache
  \/ \E config \in ServiceConfigs : SharedLoadFromObject(config)

SpecService == InitService /\ [][NextService]_vars

----------------------------------------------------------------------------
(* Claims about the service *)

\* C5 as claimed: when initialize is called with a configuration that fails
\* validation it throws, and the configuration used by processRedirect, the
\* initialized flag and the configLoaded, configVersion and groupCount of
\* getStatus are as before the call.
C5_FailedInitializeChangesNothing ==
  (obs.op = "initialize" /\ obs.source = "object" /\ obs.threw)
    => obs.after = obs.before

\* C6: at every moment the configuration processRedirect matches against is
\* none, or one whole configuration that passed RoutingService validation.
C6_MatcherHoldsValidatedConfiguration ==
  configuration # Null =>
    /\ configuration \in ServiceConfigs
    /\ validateConfiguration(configuration) = "ok"
    /\ Len(configuration.routingGroups) > 0

\* processRedirect ran against a stored configuration while a call that
\* carries a configuration without groups was in flight.
C6_Witness ==
  /\ obs.op = "processRedirect"
  /\ obs.outcome.consulted
  /\ configuration = ConfigA
  /\ \E call \in calls : call.stage = "loaded" /\ call.config = ConfigNoGroups

\* C7: while no initialize call has succeeded, processRedirect signals the
\* not-initialized error without consulting the matcher.
C7_NotInitialized ==
  (obs.op = "processRedirect" /\ obs.lastInit = Null)
    => obs.outcome = [threw |-> TRUE, error |-> ErrNotInitialized,
                      consulted |-> FALSE]

\* No initialize has succeeded, one is in flight, and a reload has already
\* given the matcher a configuration: processRedirect still refuses.
C7_Witness ==
  /\ obs.op = "processRedirect"
  /\ obs.lastInit = Null
  /\ obs.inFlight
  /\ configuration # Null
  /\ obs.outcome.threw
  /\ obs.outcome.error = ErrNotInitialized

----------------------------------------------------------------------------
(* A RoutingService whose configuration has incomplete dependency pairs *)

\* (dependsOnKey, dependsOnValue): none, a full pair, a key alone, a value
\* alone; the same four for groups and for routings.
HalfDeps ==
  {<<Undefined, Undefined>>, <<K, V>>, <<K, Undefined>>, <<Undefined, V>>}

HalfNames == {<<"g">>, <<"h">>}

HalfConfigs ==
  {MkConfig(<<"1">>, heads, deps) :
     heads \in {h \in SeqsUpTo(HalfNames \X HalfDeps, MaxGroups) :
                  Len(h) > 0 /\ DistinctNames(h)},
     deps \in SeqsUpTo(HalfDeps, MaxRoutings) \ {<<>>}}

NextHalf ==
  \/ /\ configuration = Null
     /\ \E config \in HalfConfigs : LoadConfiguration(config)
  \/ \E path \in Paths, urlParams \in ParamInputs : FindRedirect(path, urlParams)

SpecHalf == InitMatch /\ [][NextHalf]_vars

\* Exactly one of dependsOnKey and dependsOnValue is missing.
HalfPair(x) == (x.dependsOnKey = Undefined) # (x.dependsOnValue = Undefined)

WithoutHalfPair(x) ==
  IF HalfPair(x)
    THEN [x EXCEPT !.dependsOnKey = Undefined, !.dependsOnValue = Undefined]
    ELSE x

\* The configuration with every incomplete pair removed, at both levels.
WithoutHalfPairs(config) ==
  [version |-> config.version,
   routingGroups |->
     [i \in 1..Len(config.routingGroups) |->
        LET group == WithoutHalfPair(config.routingGroups[i]) IN
        [group EXCEPT !.routings =
           [j \in 1..Len(group.routings) |-> WithoutHalfPair(group.routings[j])]]]]

\* C11: a group or routing with only one of dependsOnKey and dependsOnValue
\* (the other missing) has no condition.  The result is the one the
\* configuration without these fields gives; a group of the path's name with
\* such a pair is selected for every params, and a routing with such a pair
\* in the selected group is never passed over.
C11_HalfPairIsNoCondition ==
  obs.op = "findRedirect" =>
    /\ obs.result =
         findRedirect(WithoutHalfPairs(configuration), obs.path, obs.urlParams)
    /\ \A i \in 1..Len(configuration.routingGroups) :
         LET group == configuration.routingGroups[i] IN
         (SameNameIgnoringCase(group.name, obs.path) /\ HalfPair(group))
           => /\ ~NotFound(obs, ErrNoGroup)
              /\ obs.result.found => obs.result.matchedGroup = group.name
              /\ \A j \in 1..Len(group.routings) :
                   HalfPair(group.routings[j]) =>
                     /\ obs.result.found
                     /\ \E n \in 1..j :
                          obs.result.matchedRouting = group.routings[n].name

\* A group with a value alone and a routing with a key alone were selected
\* for params that hold the key with another value.
C11_Witness ==
  /\ Found(obs)
  /\ MatchedGroup(obs).dependsOnKey = Undefined
  /\ MatchedGroup(obs).dependsOnValue = V
  /\ MatchedRouting(obs).dependsOnKey = K
  /\ MatchedRouting(obs).dependsOnValue = Undefined
  /\ obs.urlParams = [key \in {K} |-> <<>>]

----------------------------------------------------------------------------
(* Claims about findRedirect for a fixed configuration *)

\* C12: path matching is case-insensitive: for the loaded configuration and
\* any params, two paths that are equal after lower-casing get the same
\* result (found flag, targetUrl, matchedGroup, matchedRouting and error),
\* and a matched group has the path's name up to case.
C12_PathCaseInsensitive ==
  obs.op = "findRedirect" =>
    /\ \A other \in Paths :
         SameNameIgnoringCase(other, obs.path) =>
           findRedirect(configuration, other, obs.urlParams) = obs.result
    /\ obs.result.found =>
         SameNameIgnoringCase(obs.result.matchedGroup, obs.path)

\* The path 'G' found the group declared as 'g'.
C12_Witness ==
  /\ Found(obs)
  /\ obs.path = <<"G">>
  /\ obs.result.matchedGroup = <<"g">>
  /\ findRedirect(configuration, <<"g">>, obs.urlParams) = obs.result

\* C13: for a loaded (validated) configuration, every path and every params,
\* findRedirect returns a result and does not throw; a result with
\* found=false has as its error exactly 'No matching routing group found' or
\* 'No matching routing found'.
C13_NotFoundIsData ==
  obs.op = "findRedirect" =>
    /\ "found" \in DOMAIN obs.result
    /\ obs.result.found \in BOOLEAN
    /\ ~obs.result.found =>
         /\ DOMAIN obs.result = {"found", "error"}
         /\ obs.result.error \in {ErrNoGroup, ErrNoRouting}

\* Both not-found results occur: here a group was selected and none of its
\* routings, for params with an unrelated key.
C13_Witness ==
  /\ NotFound(obs, ErrNoRouting)
  /\ DOMAIN obs.urlParams = {<<"j">>}
  /\ validateConfiguration(configuration) = "ok"

----------------------------------------------------------------------------
(* A RoutingService asked the same question again *)

RepeatConfigs == {ConfigA, ConfigB}

RepeatParams == {<<>>, [key \in {K} |-> V]}

\* history after a call of kind op that is not the remembered one.
Interleaved(h, op) ==
  IF h.stage = "once" THEN [h EXCEPT !.between = @ \cup {op}] ELSE h

\* history after findRedirect(path, urlParams) returned result: the call is
\* remembered (remember), is the remembered call made again, or another one.
Remembered(h, remember, config, path, urlParams, result) ==
  IF h.stage = "none"
    THEN IF remember
           THEN [stage |-> "once", path |-> path, urlParams |-> urlParams,
                 result |-> result, configuration |-> config, between |-> {}]
           ELSE h
  ELSE IF h.path = path /\ h.urlParams = urlParams
    THEN [h EXCEPT !.stage = IF h.between # {} THEN "again" ELSE @]
  ELSE Interleaved(h, "findRedirect")

\* Mutant: the result found for a path is kept and returned for the next call
\* with that path, whatever its params.
FindRedirectSticky(path, urlParams) ==
  /\ configuration # Null
  /\ LET result == IF /\ obs.op = "findRedirect"
                      /\ obs.path = path
                      /\ obs.result.found
                     THEN obs.result
                     ELSE findRedirect(configuration, path, urlParams)
     IN
     /\ obs' = [op |-> "findRedirect", path |-> path, urlParams |-> urlParams,
                result |-> result]
     /\ \E remember \in BOOLEAN :
          history' = Remembered(history, remember, configuration, path,
                                urlParams, result)
  /\ UNCHANGED <<configuration, isInitialized, configCache, lastLoaded, calls,
                 lastInit, prevInit, reloadSince, app>>

\* routingService.findRedirect(path, urlParams), with the history kept.
FindRedirectRepeat(path, urlParams) ==
  /\ configuration # Null
  /\ LET result == findRedirect(configuration, path, urlParams) IN
     /\ obs' = [op |-> "findRedirect", path |-> path, urlParams |-> urlParams,
                result |-> result]
     /\ \E remember \in BOOLEAN :
          history' = Remembered(history, remember, configuration, path,
                                urlParams, result)
  /\ UNCHANGED <<configuration, isInitialized, configCache, lastLoaded, calls,
                 lastInit, prevInit, reloadSince, app>>

\* akaService.getStatus() between two findRedirect calls.
GetStatusRepeat ==
  /\ obs' = [op |-> "getStatus", status |-> getStatus(isInitialized, configCache)]
  /\ history' = Interleaved(history, "getStatus")
  /\ UNCHANGED <<configuration, isInitialized, configCache, lastLoaded, calls,
                 lastInit, prevInit, reloadSince, app>>

\* routingService.isConfigurationLoaded() between two findRedirect calls.
IsConfigurationLoaded ==
  /\ obs' = [op |-> "isConfigurationLoaded", loaded |-> configuration # Null]
  /\ history' = Interleaved(history, "isConfigurationLoaded")
  /\ UNCHANGED <<configuration, isInitialized, configCache, lastLoaded, calls,
                 lastInit, prevInit, reloadSince, app>>

NextRepeat ==
  \/ /\ configuration = Null
     /\ \E config \in RepeatConfigs : LoadConfiguration(config)
  \/ \E path \in Paths, urlParams \in RepeatParams :
       FindRedirectRepeat(path, urlParams)
  \/ GetStatusRepeat
  \/ IsConfigurationLoaded

SpecRepeat == InitMatch /\ [][NextRepeat]_vars

----------------------------------------------------------------------------
(* Claims about processRedirect and getStatus *)

\* The URL parser and parseURLParams both return for the url.
Decomposes(url) ==
  IF SearchOf(url) = TypeError THEN FALSE
  ELSE ~parseURLParams(SearchOf(url)).threw

\* What the matcher answers for the path and params of the url.
MatcherResult(url) ==
  findRedirect(configuration, extractPath(url),
               parseURLParams(SearchOf(url)).params)

\* C15: on an initialized service and for a URL that decomposes to (path,
\* params), processRedirect returns targetUrl exactly when
\* findRedirect(path, params) has found=true, and otherwise throws an error
\* whose message is the matcher's error, unchanged.
C15_MirrorsMatcher ==
  (obs.op = "processRedirect" /\ isInitialized /\ Decomposes(obs.url))
    => IF MatcherResult(obs.url).found
         THEN /\ ~obs.outcome.threw
              /\ obs.outcome.targetUrl = MatcherResult(obs.url).targetUrl
         ELSE /\ obs.outcome.threw
              /\ obs.outcome.error = MatcherResult(obs.url).error

\* '/G?k=v' on a service initialized with cB returned the target of the
\* routing for k=v.
C15_Witness ==
  /\ obs.op = "processRedirect"
  /\ isInitialized
  /\ configuration = ConfigB
  /\ obs.url = <<"/", "G", "?", "k", "=", "v">>
  /\ MatcherResult(obs.url).found
  /\ MatcherResult(obs.url).matchedRouting = <<"r", "b", "1">>
  /\ ~obs.outcome.threw
  /\ obs.outcome.targetUrl = <<"x", ":", "b", "1">>

\* C18 as claimed: in every reachable state the configLoaded, configVersion
\* and groupCount of getStatus equal the presence, version and group count
\* of the configuration that processRedirect matches against.
C18_StatusDescribesMatcher ==
  obs.op = "getStatus" =>
    /\ obs.status.configLoaded = (configuration # Null)
    /\ configuration # Null =>
         /\ obs.status.configVersion = configuration.version
         /\ obs.status.groupCount = Len(configuration.routingGroups)

----------------------------------------------------------------------------
(* URLUtils called on its own, as by its unit tests *)

MaxPairs == 2

\* 'k', 'k=', 'k=v', 'k=v=v', 'k==', '=v', '', 'j=v', '%6b=v', 'k=%76',
\* '%' and 'k=%': flags, values with '=', pairs without a key, escapes and
\* malformed escapes.
PairInputs ==
  {<<"k">>, <<"k", "=">>, <<"k", "=", "v">>, <<"k", "=", "v", "=", "v">>,
   <<"k", "=", "=">>, <<"=", "v">>, <<>>, <<"j", "=", "v">>,
   <<"%", "6", "b", "=", "v">>, <<"k", "=", "%", "7", "6">>,
   <<"%">>, <<"k", "=", "%">>}

\* '', '?', and up to MaxPairs pairs joined by '&', with and without '?'.
SearchInputs ==
  {<<>>, <<"?">>}
    \cup {prefix \o Join(pairs, "&") :
            prefix \in {<<>>, <<"?">>},
            pairs \in SeqsUpTo(PairInputs, MaxPairs) \ {<<>>}}

\* '', '/', 'g', '/g', '/g/h', '/G?k=v', '/g?k=%', '//', 'http://',
\* 'http://h', 'https://h/g?k=v' and 'http://?k'
PathInputs ==
  {<<>>, <<"/">>, <<"g">>, <<"/", "g">>, <<"/", "g", "/", "h">>,
   <<"/", "G", "?", "k", "=", "v">>, <<"/", "g", "?", "k", "=", "%">>,
   <<"/", "/">>, HttpPrefix, HttpPrefix \o <<"h">>,
   HttpsPrefix \o <<"h", "/", "g", "?", "k", "=", "v">>,
   HttpPrefix \o <<"?", "k">>}

\* The caller holds a string that it passes to one of the two functions.
InitUrl ==
  /\ configuration = Null
  /\ obs \in {[op |-> "input", text |-> text] :
                text \in SearchInputs \cup PathInputs}
  /\ IdleService

\* URLUtils.parseURLParams(search)
ParseURLParams ==
  /\ obs.op = "input"
  /\ obs' = [op |-> "parseURLParams", search |-> obs.text,
             outcome |-> parseURLParams(obs.text)]
  /\ UNCHANGED <<configuration, isInitialized, configCache, lastLoaded, calls,
                 lastInit, prevInit, reloadSince, history, app>>

\* URLUtils.extractPath(url): its catch block leaves nothing to throw.
ExtractPath ==
  /\ obs.op = "input"
  /\ obs' = [op |-> "extractPath", url |-> obs.text,
             outcome |-> [threw |-> FALSE, path |-> extractPath(obs.text)]]
  /\ UNCHANGED <<configuration, isInitialized, configCache, lastLoaded, calls,
                 lastInit, prevInit, reloadSince, history, app>>

NextUrl ==
  \/ ParseURLParams
  \/ ExtractPath

SpecUrl == InitUrl /\ [][NextUrl]_vars

\* The query string of a search string, and its '&'-separated pairs.
QueryOf(search) ==
  IF Len(search) > 0 /\ search[1] = "?" THEN Tail(search) ELSE search

PairsOf(search) == Split(QueryOf(search), "&")

\* A pair up to its first '=', and after it.
KeyPart(pair) ==
  IF IndexOf(pair, "=") = 0 THEN pair
  ELSE SubSeq(pair, 1, IndexOf(pair, "=") - 1)

ValuePart(pair) ==
  IF IndexOf(pair, "=") = 0 THEN <<>>
  ELSE SubSeq(pair, IndexOf(pair, "=") + 1, Len(pair))

\* Positions of the pairs that have a key.
Keyed(search) ==
  {i \in 1..Len(PairsOf(search)) : KeyPart(PairsOf(search)[i]) # <<>>}

DecodedKey(search, i) == decodeURIComponent(KeyPart(PairsOf(search)[i]))

DecodedValue(search, i) == decodeURIComponent(ValuePart(PairsOf(search)[i]))

\* No later pair has the (decoded) key of pair i.
LastOfItsKey(search, i) ==
  \A j \in Keyed(search) : j > i => DecodedKey(search, j) # DecodedKey(search, i)

\* C16 as claimed: for every input string, malformed percent-escapes
\* included, parseURLParams and extractPath return and do not throw, and
\* processRedirect on an initialized service with such a query ends in a
\* target URL or a no-match error.
C16_DecompositionNeverThrows ==
  /\ obs.op \in {"parseURLParams", "extractPath"} => ~obs.outcome.threw
  /\ (obs.op = "parseURLParams" /\ startsWith(obs.search, <<"?">>)) =>
       LET outcome == processRedirect(TRUE, ConfigA, <<"/", "g">> \o obs.search)
       IN outcome.threw => outcome.error \in {ErrNoGroup, ErrNoRouting}

\* C19 as claimed: parseURLParams splits each '&'-separated pair on its first
\* '=' only: the map holds, for the key before it, what follows it, further
\* '=' included, and the empty string for a pair without '='.
C19_SplitOnFirstEquals ==
  obs.op = "parseURLParams" =>
    \A i \in Keyed(obs.search) :
      /\ ~obs.outcome.threw
      /\ DecodedKey(obs.search, i) \in DOMAIN obs.outcome.params
      /\ LastOfItsKey(obs.search, i) =>
           obs.outcome.params[DecodedKey(obs.search, i)]
             = DecodedValue(obs.search, i)

\* C20 as claimed: when the same decoded key occurs in several pairs of the
\* query string, the resulting map holds for it the value of its last
\* occurrence.
C20_LastWins ==
  obs.op = "parseURLParams" =>
    \A i, j \in Keyed(obs.search) :
      (/\ i < j
       /\ DecodedKey(obs.search, i) # URIError
       /\ DecodedKey(obs.search, j) = DecodedKey(obs.search, i)
       /\ LastOfItsKey(obs.search, j))
        => /\ ~obs.outcome.threw
           /\ obs.outcome.params[DecodedKey(obs.search, j)]
                = DecodedValue(obs.search, j)

----------------------------------------------------------------------------
(* Claims about validation below the group level *)

NonEmptyString(s) == s \notin {Undefined, NotAString, <<>>}

\* A scheme of letters, then ':'.
AbsoluteURL(s) ==
  /\ NonEmptyString(s)
  /\ IndexOf(s, ":") > 1
  /\ \A i \in 1..(IndexOf(s, ":") - 1) : s[i] \in Letters

WellFormedRouting(routing) ==
  /\ NonEmptyString(routing.name)
  /\ AbsoluteURL(routing.redirectTarget)

WellFormedGroup(group) ==
  /\ NonEmptyString(group.name)
  /\ group.routings # NotAnArray
  /\ Len(group.routings) > 0
  /\ \A j \in 1..Len(group.routings) : WellFormedRouting(group.routings[j])

WellFormedGroups(config) ==
  \A i \in 1..Len(config.routingGroups) :
    WellFormedGroup(config.routingGroups[i])

\* C17: in every configuration accepted by loadConfiguration each group has
\* a non-empty string name and a non-empty routings sequence, and each
\* routing a non-empty string name and a redirectTarget that parses as an
\* absolute URL; a configuration with a violation in any group or routing,
\* at any position, is rejected and not stored.
C17_AcceptedGroupsWellFormed ==
  /\ configuration # Null => WellFormedGroups(configuration)
  /\ (obs.op = "loadConfiguration" /\ ~WellFormedGroups(obs.config))
       => /\ obs.threw
          /\ obs.error # "ok"
          /\ configuration = Null

\* A configuration whose only defect is the relative redirectTarget of the
\* last routing of the last group was rejected.
C17_Witness ==
  /\ obs.op = "loadConfiguration"
  /\ obs.threw
  /\ obs.error = "Invalid redirect target URL"
  /\ obs.config.routingGroups[2].routings[2].redirectTarget = <<"/", "g">>
  /\ WellFormedGroup(obs.config.routingGroups[1])
  /\ WellFormedRouting(obs.config.routingGroups[2].routings[1])
  /\ configuration = Null

----------------------------------------------------------------------------
(* Claims about rebuilding a query string *)

\* Percent-encoding of the characters that have a meaning in a query string,
\* the inverse of decodeURIComponent.
EncodeChar(c) ==
  CASE c = "=" -> <<"%", "3", "D">>
    [] c = "&" -> <<"%", "2", "6">>
    [] c = "%" -> <<"%", "2", "5">>
    [] c = "/" -> <<"%", "2", "F">>
    [] c = ":" -> <<"%", "3", "A">>
    [] c = "?" -> <<"%", "3", "F">>
    [] OTHER -> <<c>>

RECURSIVE EncodeComponent(_)
EncodeComponent(s) ==
  IF Len(s) = 0 THEN <<>>
  ELSE EncodeChar(s[1]) \o EncodeComponent(Tail(s))

\* The orders in which the keys of a map can be written.
KeyOrders(params) ==
  {order \in [1..Cardinality(DOMAIN params) -> DOMAIN params] :
     \A i, j \in DOMAIN order : order[i] = order[j] => i = j}

\* '?' and key=value for each key in the given order, joined by '&'.
RebuiltQuery(params, order) ==
  <<"?">> \o Join([i \in 1..Len(order) |->
                     EncodeComponent(order[i]) \o <<"=">>
                       \o EncodeComponent(params[order[i]])], "&")

\* C21 as claimed: for every query string, parsing it, rebuilding a query
\* string from the resulting map in any key order and parsing again yields
\* a map equal to the first one.
C21_QueryRoundTrip ==
  obs.op = "parseURLParams" =>
    /\ ~obs.outcome.threw
    /\ \A order \in KeyOrders(obs.outcome.params) :
         LET again == parseURLParams(RebuiltQuery(obs.outcome.params, order)) IN
         /\ ~again.threw
         /\ DOMAIN again.params = DOMAIN obs.outcome.params
         /\ \A key \in DOMAIN again.params :
              again.params[key] = obs.outcome.params[key]

----------------------------------------------------------------------------
(* A RoutingService that is given one configuration after another *)

ReloadConfigs ==
  RepeatConfigs \cup DefectConfigs \cup {ConfigNoVersion, ConfigNoGroups}

\* routingService.loadConfiguration(config), whatever the service holds;
\* lastInit keeps the last configuration that was accepted.
LoadConfigurationAgain(config) ==
  /\ LET r == loadConfiguration(configuration, config) IN
     /\ configuration' = r.configuration
     /\ lastInit' = IF r.threw THEN lastInit ELSE config
     /\ obs' = [op |-> "loadConfiguration",
                config |-> config,
                threw |-> r.threw,
                error |-> validateConfiguration(config),
                before |-> configuration]
  /\ UNCHANGED <<isInitialized, configCache, lastLoaded, calls, prevInit,
                 reloadSince, history, app>>

\* routingService.getConfiguration()
GetConfiguration ==
  /\ obs' = [op |-> "getConfiguration", value |-> configuration]
  /\ UNCHANGED <<configuration, isInitialized, configCache, lastLoaded, calls,
                 lastInit, prevInit, reloadSince, history, app>>

NextReload ==
  \/ \E config \in ReloadConfigs : LoadConfigurationAgain(config)
  \/ \E path \in Paths, urlParams \in RepeatParams : FindRedirect(path, urlParams)
  \/ GetConfiguration
  \/ IsConfigurationLoaded

SpecReload == InitMatch /\ [][NextReload]_vars

\* C22: when loadConfiguration throws, the stored configuration is the one
\* from before the call, and getConfiguration, isConfigurationLoaded and
\* every later findRedirect answer from the last accepted configuration (or
\* from none if none was accepted).
C22_RejectedLoadChangesNothing ==
  /\ (obs.op = "loadConfiguration" /\ obs.threw)
       => /\ configuration = obs.before
          /\ \A path \in Paths, urlParams \in RepeatParams :
               findRedirect(configuration, path, urlParams)
                 = findRedirect(obs.before, path, urlParams)
  /\ configuration = lastInit
  /\ obs.op = "getConfiguration" => obs.value = lastInit
  /\ obs.op = "isConfigurationLoaded" => obs.loaded = (lastInit # Null)
  /\ obs.op = "findRedirect" =>
       obs.result = findRedirect(lastInit, obs.path, obs.urlParams)

\* A configuration with an invalid redirect target was rejected while cA was
\* loaded, and cA is still stored.
C22_Witness ==
  /\ obs.op = "loadConfiguration"
  /\ obs.threw
  /\ obs.error = "Invalid redirect target URL"
  /\ obs.before = ConfigA
  /\ configuration = ConfigA

----------------------------------------------------------------------------
(* Further claims about matching and validation *)

\* C23: every value findRedirect returns is either found=true with
\* targetUrl, matchedGroup and matchedRouting set and no error, where
\* matchedGroup is the path up to case and targetUrl is the redirectTarget of
\* a routing declared in that group, or found=false with an error and no
\* targetUrl, matchedGroup or matchedRouting.
C23_ResultShape ==
  obs.op = "findRedirect" =>
    IF obs.result.found
      THEN /\ DOMAIN obs.result
                = {"found", "targetUrl", "matchedGroup", "matchedRouting"}
           /\ NonEmptyString(obs.result.targetUrl)
           /\ NonEmptyString(obs.result.matchedGroup)
           /\ NonEmptyString(obs.result.matchedRouting)
           /\ SameNameIgnoringCase(obs.result.matchedGroup, obs.path)
           /\ \E i \in 1..Len(configuration.routingGroups) :
                LET group == configuration.routingGroups[i] IN
                /\ group.name = obs.result.matchedGroup
                /\ \E j \in 1..Len(group.routings) :
                     /\ group.routings[j].name = obs.result.matchedRouting
                     /\ group.routings[j].redirectTarget = obs.result.targetUrl
      ELSE /\ DOMAIN obs.result = {"found", "error"}
           /\ obs.result.error # ""

\* The second routing of the second group was found.
C23_Witness ==
  /\ Found(obs)
  /\ Len(configuration.routingGroups) = 2
  /\ Len(configuration.routingGroups[2].routings) = 2
  /\ obs.result.matchedGroup = configuration.routingGroups[2].name
  /\ obs.result.matchedRouting = configuration.routingGroups[2].routings[2].name
  /\ obs.result.targetUrl = <<"x", ":", "2", "2">>

PerGroupReasons ==
  {"Routing group name is required and must be a string",
   "Group routings must be an array",
   "Routing group must have at least one routing",
   "Routing name is required",
   "Redirect target is required",
   "Invalid redirect target URL"}

\* C24: a configuration that has both group names equal up to case and a
\* violation in a group or routing (name, routings, redirectTarget) is
\* rejected with the reason of that violation, never with 'Duplicate routing
\* group names found'.
C24_DuplicateCheckComesLast ==
  (/\ obs.op = "loadConfiguration"
   /\ ~NamesDistinctIgnoringCase(obs.groupNames)
   /\ ~WellFormedGroups(obs.config))
    => /\ obs.threw
       /\ obs.error \in PerGroupReasons
       /\ obs.error # "Duplicate routing group names found"
       /\ configuration = Null

\* Groups 'g' and 'G', and an invalid redirectTarget in the last routing:
\* the reason is the target's.
C24_Witness ==
  /\ obs.op = "loadConfiguration"
  /\ obs.threw
  /\ obs.groupNames = <<<<"g">>, <<"G">>>>
  /\ obs.config.routingGroups[2].routings # NotAnArray
  /\ Len(obs.config.routingGroups[2].routings) = 2
  /\ ~AbsoluteURL(obs.config.routingGroups[2].routings[2].redirectTarget)
  /\ obs.error = "Invalid redirect target URL"

\* The configuration with its groups in another order.
Permuted(config, perm) ==
  [config EXCEPT !.routingGroups =
     [i \in 1..Len(config.routingGroups) |-> config.routingGroups[perm[i]]]]

\* C25: for a validated configuration findRedirect returns the same result
\* for every permutation of routingGroups; when the group of the path's name
\* has a condition that params does not satisfy, the result is 'No matching
\* routing group found', whatever other groups there are.
C25_GroupOrderIrrelevant ==
  obs.op = "findRedirect" =>
    /\ \A perm \in Permutations(1..Len(configuration.routingGroups)) :
         findRedirect(Permuted(configuration, perm), obs.path, obs.urlParams)
           = obs.result
    /\ \A i \in 1..Len(configuration.routingGroups) :
         (/\ SameNameIgnoringCase(configuration.routingGroups[i].name, obs.path)
          /\ ~Qualifies(configuration.routingGroups[i], obs.urlParams))
           => NotFound(obs, ErrNoGroup)

\* The first group has the path's name and an unmet condition, the second
\* group has no condition: no group is found.
C25_Witness ==
  /\ NotFound(obs, ErrNoGroup)
  /\ Len(configuration.routingGroups) = 2
  /\ SameNameIgnoringCase(configuration.routingGroups[1].name, obs.path)
  /\ Conditional(configuration.routingGroups[1])
  /\ ~Qualifies(configuration.routingGroups[1], obs.urlParams)
  /\ ~Conditional(configuration.routingGroups[2])

\* C26: the single-routing fallback never changes an outcome: what
\* findMatchingRouting returns for the selected group is what its ordered
\* scan returns, and it is null (found=false with 'No matching routing
\* found') exactly when every routing of the group has a non-empty
\* dependsOnKey and dependsOnValue and params satisfies none of them.
C26_FallbackNeverDecides ==
  HasSelectedGroup(obs) =>
    LET group == SelectedGroup(obs) IN
    /\ findMatchingRouting(group, obs.urlParams)
         = RoutingScan(group.routings, 1, obs.urlParams)
    /\ NotFound(obs, ErrNoRouting)
         <=> \A j \in 1..Len(group.routings) :
               /\ group.routings[j].dependsOnKey \notin {Undefined, <<>>}
               /\ group.routings[j].dependsOnValue \notin {Undefined, <<>>}
               /\ ~Holds(group.routings[j].dependsOnKey,
                         group.routings[j].dependsOnValue, obs.urlParams)

\* The sole routing of the selected group requires k=v, params is empty:
\* neither the scan nor the fallback selects it.
C26_Witness ==
  /\ HasSelectedGroup(obs)
  /\ Len(SelectedGroup(obs).routings) = 1
  /\ SelectedGroup(obs).routings[1].dependsOnKey = K
  /\ SelectedGroup(obs).routings[1].dependsOnValue = V
  /\ obs.urlParams = <<>>
  /\ NotFound(obs, ErrNoRouting)

----------------------------------------------------------------------------
(* Claims about the initialized flag and about reload *)

\* C27: in every reachable state of an AKAService, if the initialized flag is
\* true then its RoutingService holds a validated configuration, so that
\* processRedirect on an initialized service never fails with 'No routing
\* configuration loaded'; and the flag, once true, never becomes false.
C27_InitializedImpliesLoaded ==
  /\ [](isInitialized =>
          /\ configuration # Null
          /\ validateConfiguration(configuration) = "ok"
          /\ \A url \in UrlInputs :
               LET outcome == processRedirect(isInitialized, configuration, url) IN
               outcome.threw => outcome.error # ErrNoConfiguration
          /\ obs.op = "processRedirect" =>
               (obs.outcome.threw => obs.outcome.error # ErrNoConfiguration))
  /\ [][isInitialized => isInitialized']_vars

\* An initialized service whose configuration a reload replaced and whose
\* shared cache was cleared afterwards still resolves against the matcher.
C27_Witness ==
  /\ isInitialized
  /\ obs.op = "processRedirect"
  /\ obs.reloadSince
  /\ configCache = Null
  /\ obs.outcome.consulted
  /\ obs.outcome.threw
  /\ obs.outcome.error = ErrNoGroup

\* C28: reloadConfiguration never changes the initialized flag; a reload
\* that found the shared cache empty changes nothing and does not throw; a
\* reload whose cached configuration fails validation throws and leaves the
\* matcher's configuration as it was; and on a service whose initialize never
\* succeeded, processRedirect signals not-initialized also after a reload
\* loaded a cached configuration into the matcher.
C28_ReloadKeepsFlag ==
  /\ []((obs.op = "processRedirect" /\ obs.lastInit = Null /\ obs.reloadSince)
          => /\ configuration # Null
             /\ obs.outcome.threw
             /\ obs.outcome.error = ErrNotInitialized)
  /\ [][obs'.op = "reloadConfiguration" =>
          /\ isInitialized' = isInitialized
          /\ ~obs'.pending =>
               \A call \in calls \ calls' :
                 /\ call.config = Null =>
                      /\ ~obs'.threw
                      /\ UNCHANGED <<configuration, configCache, lastLoaded>>
                 /\ (call.config # Null /\ validateConfiguration(call.config) # "ok")
                      => obs'.threw /\ configuration' = configuration
                 /\ (call.config # Null /\ validateConfiguration(call.config) = "ok")
                      => ~obs'.threw /\ configuration' = call.config]_vars

\* initialize never succeeded, a reload gave the matcher cB from the cache,
\* and processRedirect('/G?k=v') signals not-initialized.
C28_Witness ==
  /\ obs.op = "processRedirect"
  /\ obs.lastInit = Null
  /\ obs.reloadSince
  /\ ~isInitialized
  /\ configuration = ConfigB
  /\ obs.url = <<"/", "G", "?", "k", "=", "v">>
  /\ obs.outcome = [threw |-> TRUE, error |-> ErrNotInitialized,
                    consulted |-> FALSE]

----------------------------------------------------------------------------
(* The redirect-only application (src/unnamed/part_001) *)

StatusPage == <<"/", "s", "t", "a", "t", "u", "s", ".", "h", "t", "m", "l">>
IndexPage == <<"/", "i", "n", "d", "e", "x", ".", "h", "t", "m", "l">>
AdminPrefix == <<"/", "a", "d", "m", "i", "n">>

\* The message of the dialog when initializeRedirectApp fails; the cause that
\* the code appends to it is left out.
InitFailedMessage == "Failed to initialize service: "

\* What the page does with window.location.href and document.body, and the
\* URL it passed to processRedirect.
Handled(href, dialog, resolved) ==
  [href |-> href, dialog |-> dialog, resolved |-> resolved]

\* The try/catch around akaService.processRedirect(url).
Redirected(initialized, config, url) ==
  LET outcome == processRedirect(initialized, config, url) IN
  IF outcome.threw THEN Handled(Undefined, outcome.error, url)
  ELSE Handled(outcome.targetUrl, "none", url)

\* Mutant: the root path without a query is resolved like any other request.
handleDirectRedirectNoStatusPage(initialized, config, currentPath, currentSearch) ==
  IF currentPath = <<"/">> \/ currentPath = IndexPage
    THEN Redirected(initialized, config, <<"/", "?">> \o currentSearch)
  ELSE IF startsWith(currentPath, AdminPrefix) \/ currentPath = StatusPage
    THEN Handled(Undefined, "none", Undefined)
  ELSE Redirected(initialized, config, currentPath \o currentSearch)

\* handleDirectRedirect, for window.location.pathname and .search.
handleDirectRedirect(initialized, config, currentPath, currentSearch) ==
  IF currentPath = <<"/">> \/ currentPath = IndexPage
    THEN IF currentSearch = <<>>
           THEN Handled(StatusPage, "none", Undefined)
         ELSE Redirected(initialized, config, <<"/", "?">> \o currentSearch)
  ELSE IF startsWith(currentPath, AdminPrefix) \/ currentPath = StatusPage
    THEN Handled(Undefined, "none", Undefined)
  ELSE Redirected(initialized, config, currentPath \o currentSearch)

\* window.location.pathname: '/', '/index.html', '/status.html', '/admin',
\* '/admin/u', '/g' and '/G'.
AppPaths ==
  {<<"/">>, IndexPage, StatusPage, AdminPrefix, AdminPrefix \o <<"/", "u">>,
   <<"/", "g">>, <<"/", "G">>}

\* window.location.search: '', '?k=v' and '?%'.
AppSearches == {<<>>, <<"?", "k", "=", "v">>, <<"?", "%">>}

\* The page as the script starts: nothing navigated to, no dialog.
InitApp ==
  /\ configuration = Null
  /\ obs = [op |-> "none"]
  /\ isInitialized = FALSE
  /\ configCache = Null
  /\ lastLoaded = Null
  /\ calls = {}
  /\ lastInit = Null
  /\ prevInit = Null
  /\ reloadSince = FALSE
  /\ history = NoHistory
  /\ app \in {[stage |-> "start", pathname |-> pathname, search |-> search,
               handled |-> FALSE, href |-> Undefined, dialog |-> "none",
               resolved |-> Undefined] :
                pathname \in AppPaths, search \in AppSearches}

\* initializeRedirectApp up to its await of akaService.initialize; the await
\* of loadWebComponents before it never rejects.
AppInitialize ==
  /\ app.stage = "start"
  /\ Cardinality(calls) < MaxCalls
  /\ calls' = calls \cup {[kind |-> "initialize", stage |-> "fetch"]}
  /\ obs' = [op |-> "initialize", source |-> "file", pending |-> TRUE]
  /\ app' = [app EXCEPT !.stage = "initializing"]
  /\ UNCHANGED <<configuration, isInitialized, configCache, lastLoaded,
                 lastInit, prevInit, reloadSince, history>>

\* Mutant: handleDirectRedirect runs whatever became of initialize.
AppResumeAlwaysHandles ==
  /\ app.stage = "initializing"
  /\ obs.op = "initialize" /\ ~obs.pending
  /\ LET h == handleDirectRedirect(isInitialized, configuration,
                                   app.pathname, app.search)
     IN app' = [app EXCEPT !.stage = "done", !.handled = TRUE,
                           !.href = h.href, !.dialog = h.dialog,
                           !.resolved = h.resolved]
  /\ obs' = [op |-> "initializeRedirectApp", failed |-> obs.threw]
  /\ UNCHANGED <<configuration, isInitialized, configCache, lastLoaded, calls,
                 lastInit, prevInit, reloadSince, history>>

\* initializeRedirectApp after akaService.initialize settled:
\* handleDirectRedirect, or the catch block with showRedirectError.
AppResume ==
  /\ app.stage = "initializing"
  /\ obs.op = "initialize" /\ ~obs.pending
  /\ IF obs.threw
       THEN app' = [app EXCEPT !.stage = "done", !.dialog = InitFailedMessage]
       ELSE LET h == handleDirectRedirect(isInitialized, configuration,
                                          app.pathname, app.search)
            IN app' = [app EXCEPT !.stage = "done", !.handled = TRUE,
                                  !.href = h.href, !.dialog = h.dialog,
                                  !.resolved = h.resolved]
  /\ obs' = [op |-> "initializeRedirectApp", failed |-> obs.threw]
  /\ UNCHANGED <<configuration, isInitialized, configCache, lastLoaded, calls,
                 lastInit, prevInit, reloadSince, history>>

NextApp ==
  \/ AppInitialize
  \/ \E response \in FileResponses : FileLoaded(response)
  \/ \E call \in calls : InitializeResume(call)
  \/ AppResume

SpecApp == InitApp /\ [][NextApp]_vars

\* C29: in the redirect-only application handleDirectRedirect, and with it
\* processRedirect, runs only after akaService.initialize completed
\* successfully; if initialize fails the error dialog is shown, and no
\* processRedirect call and no navigation ever happens.
C29_ResolutionAfterInitialization ==
  /\ []((app.stage # "none" /\ app.handled)
          => isInitialized /\ lastInit # Null /\ calls = {})
  /\ []((app.stage # "none" /\ (app.resolved # Undefined \/ app.href # Undefined))
          => app.handled)
  /\ []((app.stage = "done" /\ ~isInitialized)
          => /\ app.dialog = InitFailedMessage
             /\ ~app.handled
             /\ app.resolved = Undefined
             /\ app.href = Undefined)
  /\ [][(obs.op = "initialize" /\ ~obs.pending /\ obs.threw)
          => /\ app'.stage = "done"
             /\ app'.dialog = InitFailedMessage
             /\ app'.resolved = Undefined
             /\ app'.href = Undefined]_vars
  /\ [][app.stage = "done" => app' = app]_vars

\* The configuration file was fetched and cached but has no routing group:
\* initialize failed, the page '/g' shows the dialog and resolved nothing.
C29_Witness ==
  /\ app.stage = "done"
  /\ app.pathname = <<"/", "g">>
  /\ ~isInitialized
  /\ configCache = ConfigNoGroups
  /\ app.dialog = InitFailedMessage
  /\ app.resolved = Undefined
  /\ app.href = Undefined

RootPath(pathname) == pathname = <<"/">> \/ pathname = IndexPage

\* C30: on path '/' or '/index.html' with an empty query the handler
\* navigates to '/status.html' without calling processRedirect; on paths
\* starting with '/admin' or equal to '/status.html' it neither navigates nor
\* shows an error; on every other request it calls processRedirect, navigates
\* to the resolved target when that returns, and shows the error dialog and
\* does not navigate when that throws.
C30_HandlerDispatch ==
  (app.stage = "done" /\ app.handled) =>
    IF RootPath(app.pathname) /\ app.search = <<>>
      THEN /\ app.href = StatusPage
           /\ app.resolved = Undefined
           /\ app.dialog = "none"
    ELSE IF /\ ~RootPath(app.pathname)
            /\ \/ startsWith(app.pathname, AdminPrefix)
               \/ app.pathname = StatusPage
      THEN /\ app.href = Undefined
           /\ app.dialog = "none"
           /\ app.resolved = Undefined
    ELSE /\ app.resolved # Undefined
         /\ LET outcome == processRedirect(isInitialized, configuration,
                                           app.resolved)
            IN IF outcome.threw
                 THEN /\ app.dialog = outcome.error
                      /\ app.dialog # "none"
                      /\ app.href = Undefined
                 ELSE /\ app.href = outcome.targetUrl
                      /\ app.dialog = "none"
                      /\ \E i \in 1..Len(configuration.routingGroups) :
                           \E j \in 1..Len(configuration.routingGroups[i].routings) :
                             app.href = configuration.routingGroups[i]
                                          .routings[j].redirectTarget

\* The page '/G?k=v' with the configuration cB: navigation to the target of
\* the routing for k=v.
C30_Witness ==
  /\ app.stage = "done" /\ app.handled
  /\ app.pathname = <<"/", "G">>
  /\ app.search = <<"?", "k", "=", "v">>
  /\ configuration = ConfigB
  /\ app.href = <<"x", ":", "b", "1">>
  /\ app.dialog = "none"

====
